---- MODULE Spec2Model ----
(***************************************************************************)
(* Model of the chat endpoint of asym-assistant: the fixed-window rate     *)
(* limiter (src/lib/rateLimit.ts), the POST handler of the chat route and  *)
(* the server-sent-event relay that the handler starts.                    *)
(*                                                                         *)
(* Two variants of the chat route exist in the repository; both are        *)
(* modelled and a request is served by one of them:                        *)
(*   "openai"  src/src/app/api/chat/[chatId]/messages/route.ts (POST)      *)
(*   "gemini"  src/unnamed/part_007 (POST)                                 *)
(***************************************************************************)
EXTENDS Integers, Sequences, FiniteSets, TLC

\* ------------------------------------------------------------------ bounds
MaxTime == 3            \* the clock (Date.now()) runs 0..MaxTime
MaxCfgRequests == 2     \* configurations with maxRequests in 1..MaxCfgRequests
MaxCfgWindow == 2       \* configurations with windowMs in 1..MaxCfgWindow
MaxMsgs == 2            \* length of the messages list of a request body
MaxDeltas == 2          \* text increments one upstream generation produces
MaxToolCalls == 1       \* tool calls one upstream generation requests
MaxChats == 2           \* rows of the chats table
MaxStored == 1          \* rows of the messages table
MaxExchanges == 2       \* sendMessage invocations that pass the guard

\* ------------------------------------------------------------------ values
Users == {"u1", "u2"}
NoUser == "anonymous"                 \* getServerSession gave no user id
ReqIds == {1, 2}                       \* handlers that can be in flight at once
Routes == {"openai", "gemini"}
Roles == {"user", "assistant", "system", "tool", "other"}
\* a delta is a string, modelled as its sequence of characters
Deltas == {<<>>, <<"a">>, <<"b">>}
FallbackText == <<"f">>

\* A request body: JSON that is not an object with a messages array
\* ("malformed"), or the roles of its messages list in order.
Bodies == {[json |-> FALSE, roles |-> <<>>]}
            \cup {[json |-> TRUE, roles |-> rs] :
                    rs \in UNION {[1..n -> Roles] : n \in 0..MaxMsgs}}

VARIABLES
  now,             \* Date.now()
  config,          \* RateLimiter.config
  route,           \* the variant of the chat route that is deployed
  rateLimitStore,  \* the Map identifier -> RateLimitEntry
  winCalls,        \* history: checkLimit calls per identity in its current window
  winAdmitted,     \* history: admitted calls per identity in its current window
  winEnd,          \* history: end of the current window per identity, 0 if none yet
  noSweepStore,    \* history: the table as it would be had cleanup never run
  admittedIn,      \* history: per identity and instant a, the calls admitted in
                   \* [a, a + windowMs], while that interval has not passed
  retryFrom,       \* history: per identity, the instant its last 429 told it to
                   \* wait for, -1 once it called again or if it was never denied
  req,             \* per handler: position and locals of POST
  stream,          \* per handler: the ReadableStream the response carries
  upstream,        \* per handler: the streamText generation
  ev,              \* history: the checkLimit call or validation the last step made
  db,              \* the chats and messages tables
  dbLog,           \* history: the createChat and appendMessage calls that returned
  call,            \* per caller: position and locals of a server action
  cev,             \* history: the server action call the last step ended
  panel,           \* ChatPanel: the component's state (useState)
  rendered,        \* ChatPanel: the state its last render, and so its handlers, saw
  send,            \* ChatPanel: per invocation of sendMessage, position and locals
  pev              \* history: what the last step of the panel did

vars == <<now, config, route, rateLimitStore, winCalls, winAdmitted, winEnd,
          noSweepStore, admittedIn, retryFrom, req, stream, upstream, ev,
          db, dbLog, call, cev, panel, rendered, send, pev>>

postVars == <<now, config, route, rateLimitStore, winCalls, winAdmitted, winEnd,
              noSweepStore, admittedIn, retryFrom, req, stream, upstream, ev>>
chatVars == <<db, dbLog, call, cev>>
panelVars == <<panel, rendered, send, pev>>

\* ------------------------------------------------- rateLimit.ts: checkLimit
\* mutation: an entry never expires, only a missing one opens a window
WindowExpired_Never(store, id, t) == id \notin DOMAIN store

\* mutation: every call finds the entry expired
WindowExpired_Always(store, id, t) == TRUE

\* rateLimit.ts:32  !entry || now > entry.resetTime
WindowExpired(store, id, t) ==
  id \notin DOMAIN store \/ t > store[id].resetTime

\* rateLimit.ts:34-37  newEntry
NewEntry(t, cfg) == [count |-> 1, resetTime |-> t + cfg.windowMs]

\* mutation: denies one call too early
LimitExceeded_Early(entry, cfg) == entry.count >= cfg.maxRequests - 1

\* mutation: `>` for `>=`, admits one call too many
LimitExceeded_Late(entry, cfg) == entry.count > cfg.maxRequests

\* rateLimit.ts:48  entry.count >= this.config.maxRequests
LimitExceeded(entry, cfg) == entry.count >= cfg.maxRequests

\* mutation: the increment is lost
Incremented_Lost(entry) == entry

\* mutation: counting a call also moves the end of the window
Incremented_Slides(entry) ==
  [entry EXCEPT !.count = entry.count + 1, !.resetTime = entry.resetTime + 1]

\* rateLimit.ts:59  entry.count++
Incremented(entry) == [entry EXCEPT !.count = entry.count + 1]

\* mutation: one entry is shared by every key of the table
MapSet_Shared(store, id, entry) == [k \in DOMAIN store \cup {id} |-> entry]

\* Map.set(identifier, entry)
MapSet(store, id, entry) ==
  [k \in DOMAIN store \cup {id} |-> IF k = id THEN entry ELSE store[k]]

\* Map.delete over a set of keys
MapDelete(store, keys) == [k \in DOMAIN store \ keys |-> store[k]]

\* which return statement of checkLimit is taken
CheckLimitBranch(store, id, t, cfg) ==
  IF WindowExpired(store, id, t) THEN "open"
  ELSE IF LimitExceeded(store[id], cfg) THEN "denied"
  ELSE "increment"

\* mutation: a denied call restarts the window of the entry
CheckLimitStore_DeniedExtends(store, id, t, cfg) ==
  CASE CheckLimitBranch(store, id, t, cfg) = "open" ->
         MapSet(store, id, NewEntry(t, cfg))
    [] CheckLimitBranch(store, id, t, cfg) = "denied" ->
         MapSet(store, id, [store[id] EXCEPT !.resetTime = t + cfg.windowMs])
    [] OTHER -> MapSet(store, id, Incremented(store[id]))

\* mutation: checkLimit decides without writing the table
CheckLimitStore_NoWrite(store, id, t, cfg) == store

\* the table after checkLimit(identifier)
CheckLimitStore(store, id, t, cfg) ==
  CASE CheckLimitBranch(store, id, t, cfg) = "open" ->
         MapSet(store, id, NewEntry(t, cfg))
    [] CheckLimitBranch(store, id, t, cfg) = "denied" -> store
    [] OTHER -> MapSet(store, id, Incremented(store[id]))

\* mutation: remaining is computed from the count before the increment
CheckLimitResult_BeforeIncrement(store, id, t, cfg) ==
  CASE CheckLimitBranch(store, id, t, cfg) = "open" ->
         [success |-> TRUE, limit |-> cfg.maxRequests,
          remaining |-> cfg.maxRequests - 1,
          resetTime |-> NewEntry(t, cfg).resetTime]
    [] CheckLimitBranch(store, id, t, cfg) = "denied" ->
         [success |-> FALSE, limit |-> cfg.maxRequests,
          remaining |-> 0, resetTime |-> store[id].resetTime]
    [] OTHER ->
         [success |-> TRUE, limit |-> cfg.maxRequests,
          remaining |-> cfg.maxRequests - store[id].count,
          resetTime |-> store[id].resetTime]

\* the value checkLimit(identifier) resolves with
CheckLimitResult(store, id, t, cfg) ==
  CASE CheckLimitBranch(store, id, t, cfg) = "open" ->
         [success |-> TRUE, limit |-> cfg.maxRequests,
          remaining |-> cfg.maxRequests - 1,
          resetTime |-> NewEntry(t, cfg).resetTime]
    [] CheckLimitBranch(store, id, t, cfg) = "denied" ->
         [success |-> FALSE, limit |-> cfg.maxRequests,
          remaining |-> 0, resetTime |-> store[id].resetTime]
    [] OTHER ->
         [success |-> TRUE, limit |-> cfg.maxRequests,
          remaining |-> cfg.maxRequests - Incremented(store[id]).count,
          resetTime |-> store[id].resetTime]

\* mutation: the sweep also removes an entry at the instant of its resetTime
CleanupStore_AtEnd(store, t) ==
  MapDelete(store, {k \in DOMAIN store : t >= store[k].resetTime})

\* rateLimit.ts:71-78  cleanup
CleanupStore(store, t) ==
  MapDelete(store, {k \in DOMAIN store : t > store[k].resetTime})

\* ------------------------------------------------------------ route: POST
\* chatInputSchema: the roles z.enum accepts in each variant of the route
SchemaRoles(rt) ==
  IF rt = "gemini" THEN {"user", "assistant", "system", "tool"}
  ELSE {"user", "assistant", "system"}

\* chatInputSchema.parse(body) does not throw
SchemaAccepts(rt, body) ==
  body.json /\ \A i \in 1..Len(body.roles) : body.roles[i] \in SchemaRoles(rt)

\* The outcome of the synchronous run from `await req.json()` to the streamText
\* call: the HTTP status it returns, or 0 when it goes on to open the upstream.
\*   parse throws                    -> catch -> 500
\*   messages[messages.length - 1] is undefined, .role throws -> catch -> 500
\*   lastMessage.role !== 'user'     -> 400
ValidateStatus(rt, body) ==
  IF ~SchemaAccepts(rt, body) THEN 500
  ELSE IF Len(body.roles) = 0 THEN 500
  ELSE IF body.roles[Len(body.roles)] # "user" THEN 400
  ELSE 0

\* Date.toISOString(): the text of a millisecond timestamp.  Distinct
\* timestamps have distinct texts; the text is not a number.
IsoString(t) == [iso |-> t]

MsPerSecond == 1000

\* Math.ceil(a / b) for b > 0
CeilDiv(a, b) == IF a <= 0 THEN 0 - ((0 - a) \div b) ELSE (a + b - 1) \div b

\* route.ts:72, 81  Math.ceil((rateLimitResult.resetTime - Date.now()) / 1000)
RetryAfterSeconds(resetTime, t) == CeilDiv(resetTime - t, MsPerSecond)

\* ------------------------------------------------ route: POST's responses
\* A response is its status, its headers (name -> value) and its body (the
\* object that is serialised, the text, or the stream).  Status 0: none.
NoResponse == [status |-> 0, headers |-> <<>>, body |-> [error |-> ""]]

JsonHeaders == ("Content-Type" :> "application/json")

\* route.ts:57-60
UnauthorizedResponse ==
  [status |-> 401, headers |-> JsonHeaders, body |-> [error |-> "Unauthorized"]]

\* mutation: the remaining header repeats the limit
RateLimitedResponse_Swapped(res, t) ==
  [status |-> 429,
   headers |-> JsonHeaders
     @@ ("X-RateLimit-Limit" :> ToString(res.limit))
     @@ ("X-RateLimit-Remaining" :> ToString(res.limit))
     @@ ("X-RateLimit-Reset" :> IsoString(res.resetTime))
     @@ ("Retry-After" :> ToString(RetryAfterSeconds(res.resetTime, t))),
   body |-> [error |-> "Rate limit exceeded", limit |-> res.limit,
             resetTime |-> IsoString(res.resetTime),
             retryAfter |-> RetryAfterSeconds(res.resetTime, t)]]

\* route.ts:66-84: the answer to a denied request; t is what Date.now()
\* returns while the response is built
RateLimitedResponse(res, t) ==
  [status |-> 429,
   headers |-> JsonHeaders
     @@ ("X-RateLimit-Limit" :> ToString(res.limit))
     @@ ("X-RateLimit-Remaining" :> ToString(res.remaining))
     @@ ("X-RateLimit-Reset" :> IsoString(res.resetTime))
     @@ ("Retry-After" :> ToString(RetryAfterSeconds(res.resetTime, t))),
   body |-> [error |-> "Rate limit exceeded", limit |-> res.limit,
             resetTime |-> IsoString(res.resetTime),
             retryAfter |-> RetryAfterSeconds(res.resetTime, t)]]

\* route.ts:94  new Response('Last message must be from user', {status: 400})
BadRequestResponse ==
  [status |-> 400, headers |-> <<>>,
   body |-> [text |-> "Last message must be from user"]]

\* route.ts:186-192  the outer catch
InternalErrorResponse ==
  [status |-> 500, headers |-> JsonHeaders,
   body |-> [error |-> "Internal server error"]]

\* route.ts:173-182  the response that carries the stream of handler r
StreamResponse(r) ==
  [status |-> 200,
   headers |-> ("Content-Type" :> "text/event-stream")
     @@ ("Cache-Control" :> "no-cache") @@ ("Connection" :> "keep-alive")
     @@ ("Access-Control-Allow-Origin" :> "*")
     @@ ("Access-Control-Allow-Methods" :> "POST, OPTIONS")
     @@ ("Access-Control-Allow-Headers" :> "Content-Type"),
   body |-> [stream |-> r]]

\* the response of the run ValidateStatus describes
ValidateResponse(rt, body) ==
  CASE ValidateStatus(rt, body) = 400 -> BadRequestResponse
    [] ValidateStatus(rt, body) = 500 -> InternalErrorResponse
    [] OTHER -> NoResponse

\* tools.<name>.execute: what the tool function does when its fetch
\* succeeds / throws.  part_007 wraps the fetch in try/catch and returns
\* {error}; route.ts awaits the fetch bare, so the rejection propagates.
ToolExecute(rt, fetchOk) ==
  IF fetchOk THEN "data"
  ELSE IF rt = "gemini" THEN "errorPayload"
  ELSE "raised"

\* ----------------------------------------------------------- relay frames
DeltaFrame(d) == [type |-> "text-delta", delta |-> d]
DoneFrame == [type |-> "done", delta |-> <<>>]

\* part_007:187-194: the fallback text-delta sent when no delta was streamed
FallbackFrames(rt, deltaCount) ==
  IF rt = "gemini" /\ deltaCount = 0 THEN <<DeltaFrame(FallbackText)>>
  ELSE <<>>

\* mutation: the loop ends without the done frame
FinalFrames_NoDone(rt, deltaCount) == FallbackFrames(rt, deltaCount)

\* the frames enqueued after the for-await loop ends normally
FinalFrames(rt, deltaCount) ==
  FallbackFrames(rt, deltaCount) \o <<DoneFrame>>

RECURSIVE Concat(_)
\* concatenation of a sequence of strings
Concat(ss) == IF ss = <<>> THEN <<>> ELSE Head(ss) \o Concat(Tail(ss))

RECURSIVE DeltaPayloads(_)
\* the delta payloads of the text-delta frames of a frame sequence, in order
DeltaPayloads(fs) ==
  IF fs = <<>> THEN <<>>
  ELSE IF Head(fs).type = "text-delta"
       THEN <<Head(fs).delta>> \o DeltaPayloads(Tail(fs))
       ELSE DeltaPayloads(Tail(fs))

RECURSIVE CountDone(_)
CountDone(fs) ==
  IF fs = <<>> THEN 0
  ELSE (IF Head(fs).type = "done" THEN 1 ELSE 0) + CountDone(Tail(fs))

\* ------------------------------------------------- actions/chat.ts: pure
CallIds == {1, 2}                      \* server action calls in flight at once
Ops == {"createChat", "listChats", "getChat", "appendMessage"}

\* A chat id is a UUID: here the position of the chat's insert.  NotUuid is
\* a string that is not a UUID; an id above the number of chats is a UUID no
\* chat has.
NotUuid == 0
ChatIdInputs == {NotUuid} \cup (1..MaxChats)

\* schemas: roleSchema
ChatRoles == {"user", "assistant", "tool"}
RoleInputs == {"user", "other"}
\* the title of a createChat input: left out, or not a string
TitleInputs == {"absent", "notString"}

\* schemas: createChatInputSchema.parse(input) does not throw
CreateInputOk(title) == title # "notString"

\* schemas: appendMessageInputSchema.parse(input) does not throw
AppendInputOk(chatId, role) == chatId # NotUuid /\ role \in ChatRoles

\* mutation: the session is not looked at
GetCurrentUserId_Anyone(user) == "ok"

\* chat.ts:20-32  getCurrentUserId: "ok" or the message of the error thrown
GetCurrentUserId(user) ==
  IF user = NoUser THEN "Unauthorized: User not authenticated" ELSE "ok"

\* what runs between getCurrentUserId and the first query: the input parse
ParseInput(op, chatId, role, title) ==
  CASE op = "createChat" /\ ~CreateInputOk(title) -> "ZodError"
    [] op = "appendMessage" /\ ~AppendInputOk(chatId, role) -> "ZodError"
    [] OTHER -> "ok"

EmptyDb == [chats |-> <<>>, messages |-> <<>>]

\* defaultNow() of a chat: the database clock, which has advanced since the
\* chat before it was inserted
DbNow(d) == Len(d.chats) + 1

\* chat.ts:52-58  db.insert(chats).values({userId, title}).returning()
InsertChat(d, userId) ==
  [d EXCEPT !.chats = Append(@, [id |-> Len(@) + 1, userId |-> userId,
                                  createdAt |-> DbNow(d)])]

\* chat.ts:190-197  db.insert(messages).values({chatId, role, content});
\* by is history: the session user of the call that inserted the row
InsertMessage(d, chatId, role, by) ==
  [d EXCEPT !.messages = Append(@, [chatId |-> chatId, role |-> role, by |-> by])]

\* db.select().from(chats).where(eq(chats.id, id)).limit(1)
SelectChat(d, id) ==
  LET Test(c) == c.id = id IN SelectSeq(d.chats, Test)

\* the index of a row of rows with the greatest createdAt
Latest(rows) ==
  CHOOSE i \in 1..Len(rows) : \A j \in 1..Len(rows) : rows[j].createdAt <= rows[i].createdAt

\* rows without its i-th row
Without(rows, i) == SubSeq(rows, 1, i - 1) \o SubSeq(rows, i + 1, Len(rows))

RECURSIVE OrderByCreatedDesc(_)
\* .orderBy(desc(chats.createdAt))
OrderByCreatedDesc(rows) ==
  IF rows = <<>> THEN <<>>
  ELSE <<rows[Latest(rows)]>> \o OrderByCreatedDesc(Without(rows, Latest(rows)))

\* mutation: the order of the inserts, oldest first
SelectUserChats_Oldest(d, userId) ==
  LET Test(c) == c.userId = userId IN SelectSeq(d.chats, Test)

\* chat.ts:89-97  the chats of a user, latest first
SelectUserChats(d, userId) ==
  LET Test(c) == c.userId = userId IN OrderByCreatedDesc(SelectSeq(d.chats, Test))

\* chat.ts:102-105, 144-153  the messages of a chat
SelectMessages(d, chatId) ==
  LET Test(m) == m.chatId = chatId IN SelectSeq(d.messages, Test)

\* mutation: the ownership test is missing
ChatAccess_NoOwnerCheck(rows, userId) ==
  IF rows = <<>> THEN "Chat not found" ELSE "ok"

\* chat.ts:135-141, 182-188  "ok" or the message of the error thrown
ChatAccess(rows, userId) ==
  IF rows = <<>> THEN "Chat not found"
  ELSE IF rows[1].userId # userId THEN "Unauthorized: Access denied to this chat"
  ELSE "ok"

\* chat.ts:107-110  {...chat, messageCount: messageCount.length}
ChatDTO(chat, n) == [id |-> chat.id, createdAt |-> chat.createdAt, messageCount |-> n]

\* ------------------------------------------------------------------ state
\* ------------------------------------------------- ChatPanel.tsx: pure
SendIds == {1, 2}     \* invocations of sendMessage that can be running at once
NoChat == 0           \* currentChatId === null

\* what the input can hold: a string is its sequence of characters
Inputs == {<<>>, <<" ">>, <<" ", "h", " ">>}

\* ChatPanel.tsx:45-49  SUMMARY_CONFIG
MaxRecentMessages == 5
MinMessagesForSummary == 8

RECURSIVE TrimStart(_)
TrimStart(str) ==
  IF str # <<>> /\ Head(str) = " " THEN TrimStart(Tail(str)) ELSE str

RECURSIVE TrimEnd(_)
TrimEnd(str) ==
  IF str # <<>> /\ str[Len(str)] = " "
  THEN TrimEnd(SubSeq(str, 1, Len(str) - 1)) ELSE str

\* String.prototype.trim
Trim(str) == TrimEnd(TrimStart(str))

\* String.prototype.includes
Includes(text, word) ==
  \E i \in 1..(Len(text) - Len(word) + 1) : SubSeq(text, i, i + Len(word) - 1) = word

\* A message of the conversation: its role, what its content is ("typed",
\* "answer": the text of a response, "apology": the text shown after an
\* error, "card": tool data), and, as history, whether the stream an answer
\* came from had delivered its done frame.
UserMessage == [role |-> "user", kind |-> "typed", complete |-> TRUE]
AssistantMessage(sawDone) == [role |-> "assistant", kind |-> "answer", complete |-> sawDone]
ToolMessage == [role |-> "tool", kind |-> "card", complete |-> TRUE]
ApologyMessage == [role |-> "assistant", kind |-> "apology", complete |-> TRUE]

\* ChatPanel.tsx:334-362  the card chosen from keywords in the text; each
\* keyword list stands as one word over the alphabet of Deltas
ToolKindOf(text) ==
  IF Includes(text, <<"a", "b">>) THEN "weather"
  ELSE IF Includes(text, <<"b", "a">>) THEN "f1"
  ELSE IF Includes(text, <<"b", "b">>) THEN "stock"
  ELSE "none"

\* Array.prototype.slice(-n)
SliceLast(xs, n) == SubSeq(xs, IF Len(xs) > n THEN Len(xs) - n + 1 ELSE 1, Len(xs))

\* ChatPanel.tsx:161-200  generateConversationSummary returns a non-empty text
HasSummary(messages) ==
  /\ Len(messages) > MinMessagesForSummary
  /\ \E i \in 1..(Len(messages) - MaxRecentMessages) : messages[i].role = "user"

\* ChatPanel.tsx:203-233  prepareMessagesForAPI, as the body fetch sends:
\* system prompt, summary (as a user message) if any, the recent messages,
\* the new user message
PrepareMessagesForAPI(messages, newUserMessage) ==
  LET recentMessages == SliceLast(messages, MaxRecentMessages) IN
    [json |-> TRUE,
     roles |-> <<"system">>
               \o (IF HasSummary(messages) THEN <<"user">> ELSE <<>>)
               \o [i \in 1..Len(recentMessages) |-> recentMessages[i].role]
               \o <<"user">>]

\* ChatPanel.tsx:310-321  what one frame does to fullContent
ProcessFrame(fullContent, f) ==
  IF f.type = "text-delta" THEN fullContent \o f.delta ELSE fullContent

\* an invocation slot in which no sendMessage runs
IdleSend ==
  [pc |-> "idle", text |-> <<>>, chatId |-> NoChat,
   body |-> [json |-> TRUE, roles |-> <<>>],
   fullContent |-> <<>>,
   frames |-> <<>>,       \* history: the frames read from the response
   toolKind |-> "none",
   appended |-> <<>>]     \* history: the appendMessage calls made so far

\* What the last step of the panel did: op is "send", "ignored" (the guard
\* of sendMessage returned), "response", "frame", "end", "append" or
\* "finished" (sendMessage returned).
NoPanelEvent ==
  [op |-> "none", s |-> 0, outcome |-> "none", status |-> 0, error |-> "none",
   text |-> <<>>, body |-> [json |-> TRUE, roles |-> <<>>],
   inFlight |-> 0,        \* send: the chat requests in flight before it
   fullContent |-> <<>>, frames |-> <<>>, appended |-> <<>>]

\* the conversation SSR hands to the panel: none, or three exchanges with cards
Exchange == <<UserMessage, AssistantMessage(TRUE), ToolMessage>>
InitialMessages == {<<>>, Exchange \o Exchange \o Exchange}

NoResult == [success |-> FALSE, limit |-> 0, remaining |-> 0, resetTime |-> 0]
ZeroEntry == [count |-> 0, resetTime |-> 0]

\* the role of the last entry of the messages list of a body
LastRole(b) == IF Len(b.roles) = 0 THEN "none" ELSE b.roles[Len(b.roles)]

\* a handler slot with no request in it
IdleReq ==
  [pc |-> "idle", user |-> NoUser,
   wrote |-> FALSE]       \* history: this request changed the table

NoStream == [state |-> "none", frames |-> <<>>, deltaCount |-> 0]
NoUpstream == [state |-> "none", produced |-> <<>>, taken |-> 0, tools |-> <<>>]

\* What the last step did: op names the operation ("checkLimit", or the
\* step of POST: "auth", "validate", "open", "respond"), status is the HTTP
\* status POST returned in that step (0: it returned nothing yet).
NoEvent ==
  [op |-> "none", r |-> 0, id |-> NoUser, at |-> 0,
   had |-> FALSE, prev |-> ZeroEntry, res |-> NoResult,
   resNoSweep |-> NoResult,  \* what the call would have returned had cleanup never run
   nth |-> 0, callsBefore |-> 0, admittedBefore |-> 0, endBefore |-> 0,
   json |-> FALSE,    \* validation: the body was JSON with a messages list
   last |-> "none",   \* validation: role of the last message, "none" if no message
   schemaOk |-> FALSE,  \* validation: chatInputSchema.parse accepted the body
   status |-> 0,
   headers |-> NoResponse.headers,
   body |-> NoResponse.body,
   wrote |-> FALSE]   \* the request being answered had changed the table

\* the event e of a step in which POST returned the response resp
Answer(e, resp) ==
  [e EXCEPT !.status = resp.status, !.headers = resp.headers, !.body = resp.body]

\* rateLimit.ts:82-85  the configuration of defaultRateLimiter
DefaultConfig == [maxRequests |-> 10, windowMs |-> 60 * 1000]

\* the configurations a RateLimiter is constructed with: small ones, and the
\* one of the limiter the chat route uses
\* a caller slot with no server action running in it
IdleCall ==
  [pc |-> "idle", op |-> "none", user |-> NoUser,
   chatId |-> NotUuid, role |-> "user",   \* the input, once parsed
   chats |-> <<>>,      \* listChats: userChats
   counts |-> <<>>,     \* listChats: messageCount per chat, -1 while pending
   queries |-> 0,       \* history: queries this call has run
   stale |-> FALSE]     \* history: a row was inserted after this call's select

\* What the server action call that ended in the last step returned:
\* outcome is "ok" or the message of the error it rejected with.
NoChatEvent ==
  [op |-> "none", user |-> NoUser,
   chatId |-> NotUuid, role |-> "user", title |-> "absent",
   outcome |-> "none",
   list |-> <<>>,        \* listChats: the ChatDTOs returned
   messages |-> <<>>,    \* getChat: the messages returned
   messageCount |-> -1,  \* createChat: the messageCount returned
   queries |-> 0, stale |-> FALSE]

NoDbLog ==
  [created |-> <<>>,                     \* owner of each chat createChat returned
   appended |-> [i \in 1..MaxChats |-> 0]] \* appendMessage calls that returned, per chat

Configs ==
  [maxRequests : 1..MaxCfgRequests, windowMs : 1..MaxCfgWindow] \cup {DefaultConfig}

InitServer ==
  /\ now = 0
  /\ config \in Configs
  /\ route \in Routes
  /\ rateLimitStore = <<>>
  /\ noSweepStore = <<>>
  /\ admittedIn = [u \in Users |-> [a \in 0..MaxTime |-> 0]]
  /\ retryFrom = [u \in Users |-> -1]
  /\ winCalls = [u \in Users |-> 0]
  /\ winAdmitted = [u \in Users |-> 0]
  /\ winEnd = [u \in Users |-> 0]
  /\ req = [r \in ReqIds |-> IdleReq]
  /\ stream = [r \in ReqIds |-> NoStream]
  /\ upstream = [r \in ReqIds |-> NoUpstream]
  /\ ev = NoEvent
  /\ db = EmptyDb
  /\ dbLog = NoDbLog
  /\ call = [c \in CallIds |-> IdleCall]
  /\ cev = NoChatEvent

\* no ChatPanel is mounted
InitUnmounted ==
  /\ panel = [messages |-> <<>>, input |-> <<>>, isLoading |-> FALSE,
              currentChatId |-> NoChat, sends |-> 0]
  /\ rendered = panel
  /\ send = [s \in SendIds |-> IdleSend]
  /\ pev = NoPanelEvent

Init == InitServer /\ InitUnmounted

limiterVars ==
  <<rateLimitStore, winCalls, winAdmitted, winEnd, noSweepStore, admittedIn,
    retryFrom>>

\* the start() callback of the response stream of r has not returned yet
RelayRunning(r) == stream[r].state = "readable"

\* start() of the response stream of r has not returned yet, whether or not
\* the client still reads the stream ("cancelled": it has gone, the stream's
\* state is closed and its queue is dropped; "released": start() returned
\* after that)
LoopRunning(r) == stream[r].state \in {"readable", "cancelled"}

Min(a, b) == IF a < b THEN a ELSE b

\* --------------------------------------------------------------- actions
\* Date.now() advances
Tick ==
  /\ now < MaxTime
  /\ now' = now + 1
  /\ admittedIn' = [u \in Users |-> [a \in 0..MaxTime |->
       IF a + config.windowMs < now' THEN 0 ELSE admittedIn[u][a]]]
  /\ ev' = NoEvent
  /\ UNCHANGED <<chatVars, panelVars, config, route, rateLimitStore, winCalls, winAdmitted,
                 winEnd, noSweepStore, retryFrom, req, stream, upstream>>

\* rateLimit.ts:88-90  setInterval(() => defaultRateLimiter.cleanup())
Cleanup ==
  /\ rateLimitStore' = CleanupStore(rateLimitStore, now)
  /\ ev' = NoEvent
  /\ UNCHANGED <<chatVars, panelVars, now, config, route, winCalls, winAdmitted, winEnd,
                 noSweepStore, admittedIn, retryFrom, req, stream, upstream>>

\* One call checkLimit(id), made by handler r (0: by another caller), with
\* the history of the identity's window.  The history does not look at the
\* table: a window is opened by the first call ever and by the first call
\* after the end of the window before it, and lasts windowMs.
LimiterCall(id, r) ==
  LET res == CheckLimitResult(rateLimitStore, id, now, config)
      opens == winEnd[id] = 0 \/ now > winEnd[id]
      calls == IF opens THEN 1 ELSE Min(config.maxRequests + 1, winCalls[id] + 1)
  IN
    /\ rateLimitStore' = CheckLimitStore(rateLimitStore, id, now, config)
    /\ noSweepStore' = CheckLimitStore(noSweepStore, id, now, config)
    /\ winCalls' = [winCalls EXCEPT ![id] = calls]
    /\ winAdmitted' = [winAdmitted EXCEPT ![id] =
         Min(config.maxRequests + 1,
             (IF opens THEN 0 ELSE @) + (IF res.success THEN 1 ELSE 0))]
    /\ winEnd' = [winEnd EXCEPT ![id] = IF opens THEN now + config.windowMs ELSE @]
    /\ ev' = [Answer(NoEvent, IF r # 0 /\ ~res.success
                               THEN RateLimitedResponse(res, now)
                               ELSE NoResponse) EXCEPT
                !.op = "checkLimit", !.r = r, !.id = id, !.at = now,
                !.had = (id \in DOMAIN rateLimitStore),
                !.prev = IF id \in DOMAIN rateLimitStore
                         THEN rateLimitStore[id] ELSE ZeroEntry,
                !.res = res, !.nth = calls,
                !.resNoSweep = CheckLimitResult(noSweepStore, id, now, config),
                !.callsBefore = winCalls[id],
                !.admittedBefore = winAdmitted[id],
                !.endBefore = winEnd[id]]

\* rateLimit.ts:23-68  checkLimit called on its own
CheckLimit(id) ==
  /\ LimiterCall(id, 0)
  /\ UNCHANGED <<chatVars, panelVars, admittedIn, retryFrom, now, config, route, req, stream,
                 upstream>>

\* checkLimit called on its own, with the history of the calls admitted in
\* each interval of length windowMs that has not passed yet
CheckLimitCounted(id) ==
  /\ LimiterCall(id, 0)
  /\ admittedIn' = [admittedIn EXCEPT ![id] = [a \in 0..MaxTime |->
       IF CheckLimitResult(rateLimitStore, id, now, config).success
          /\ a <= now /\ now <= a + config.windowMs
       THEN Min(2 * config.maxRequests + 1, @[a] + 1) ELSE @[a]]]
  /\ UNCHANGED <<chatVars, panelVars, retryFrom, now, config, route, req, stream, upstream>>

\* A POST request reaches a free handler slot.  The stream of the slot's
\* previous response, if any, is no longer followed.
Arrive(r) ==
  /\ req[r].pc = "idle"
  /\ \E u \in Users \cup {NoUser} :
       req' = [req EXCEPT ![r] = [IdleReq EXCEPT !.pc = "auth", !.user = u]]
  /\ stream' = [stream EXCEPT ![r] = NoStream]
  /\ upstream' = [upstream EXCEPT ![r] = NoUpstream]
  /\ ev' = NoEvent
  /\ UNCHANGED <<chatVars, panelVars, now, config, route, limiterVars>>

\* mutation: the session check is missing, an anonymous request goes on to
\* read its body
Authenticate_Skipped(r) ==
  /\ req[r].pc = "auth"
  /\ req' = [req EXCEPT ![r] =
       [@ EXCEPT !.pc = IF req[r].user = NoUser THEN "body" ELSE "ratelimit"]]
  /\ ev' = [NoEvent EXCEPT !.op = "auth", !.r = r, !.id = req[r].user]
  /\ UNCHANGED <<chatVars, panelVars, now, config, route, limiterVars, stream, upstream>>

\* route.ts:55-61  getServerSession, 401 when there is no user id
Authenticate(r) ==
  /\ req[r].pc = "auth"
  /\ req' = [req EXCEPT ![r] =
       IF req[r].user = NoUser THEN IdleReq ELSE [@ EXCEPT !.pc = "ratelimit"]]
  /\ ev' = [Answer(NoEvent, IF req[r].user = NoUser
                           THEN UnauthorizedResponse ELSE NoResponse)
            EXCEPT !.op = "auth", !.r = r, !.id = req[r].user]
  /\ UNCHANGED <<chatVars, panelVars, now, config, route, limiterVars, stream, upstream>>

\* route.ts:64-85  defaultRateLimiter.checkLimit(session.user.id), 429 on denial.
\* checkLimit has no await inside: it runs to completion in one step.
RateLimitCall(r) ==
  /\ req[r].pc = "ratelimit"
  /\ LimiterCall(req[r].user, r)
  /\ LET res == CheckLimitResult(rateLimitStore, req[r].user, now, config) IN
       req' = [req EXCEPT ![r] =
         IF res.success
         THEN [@ EXCEPT !.pc = "body", !.wrote = (rateLimitStore' # rateLimitStore)]
         ELSE IdleReq]
  /\ UNCHANGED <<chatVars, panelVars, admittedIn, now, config, route, stream, upstream>>

RateLimit(r) ==
  /\ RateLimitCall(r)
  /\ UNCHANGED retryFrom

\* route.ts:64-85  the same step, with the history of the retry guidance: a
\* 429 tells the caller to wait retryAfter seconds from now
RateLimitGuided(r) ==
  /\ RateLimitCall(r)
  /\ LET res == CheckLimitResult(rateLimitStore, req[r].user, now, config) IN
       retryFrom' = [retryFrom EXCEPT ![req[r].user] =
         IF res.success THEN -1
         ELSE now + RetryAfterSeconds(res.resetTime, now) * MsPerSecond]

\* ChatPanel.tsx:284-287  "Please wait N seconds before trying again": a
\* denied caller lets exactly the reported time pass (once: the clock is
\* past MaxTime afterwards)
Sleep(u) ==
  /\ now <= MaxTime
  /\ retryFrom[u] > now
  /\ now' = retryFrom[u]
  /\ ev' = NoEvent
  /\ UNCHANGED <<chatVars, panelVars, config, route, limiterVars, req, stream, upstream>>

\* route.ts:87-142  req.json(), chatInputSchema.parse, last-message check and
\* the streamText call, which run without an await in between
Validate(r) ==
  /\ req[r].pc = "body"
  /\ \E b \in Bodies :
       LET s == ValidateStatus(route, b) IN
         /\ req' = [req EXCEPT ![r] =
              IF s = 0 THEN [@ EXCEPT !.pc = "opening"] ELSE IdleReq]
         /\ upstream' = [upstream EXCEPT ![r] =
              IF s = 0 THEN [NoUpstream EXCEPT !.state = "running"] ELSE @]
         /\ ev' = [Answer(NoEvent, ValidateResponse(route, b)) EXCEPT
                     !.op = "validate", !.r = r, !.id = req[r].user,
                     !.json = b.json, !.last = LastRole(b),
                     !.schemaOk = SchemaAccepts(route, b),
                     !.wrote = req[r].wrote]
  /\ UNCHANGED <<chatVars, panelVars, now, config, route, limiterVars, stream>>

\* route.ts:109 `await streamText(...)` rejects: the outer catch answers 500
OpenFails(r) ==
  /\ req[r].pc = "opening"
  /\ req' = [req EXCEPT ![r] = IdleReq]
  /\ upstream' = [upstream EXCEPT ![r] = NoUpstream]
  /\ ev' = [Answer(NoEvent, InternalErrorResponse) EXCEPT
              !.op = "open", !.r = r, !.id = req[r].user]
  /\ UNCHANGED <<chatVars, panelVars, now, config, route, limiterVars, stream>>

\* route.ts:145-182  new ReadableStream({start}) and `return new Response(stream)`
Respond200(r) ==
  /\ req[r].pc = "opening"
  /\ req' = [req EXCEPT ![r] = IdleReq]
  /\ stream' = [stream EXCEPT ![r] = [NoStream EXCEPT !.state = "readable"]]
  /\ ev' = [Answer(NoEvent, StreamResponse(r)) EXCEPT
              !.op = "respond", !.r = r, !.id = req[r].user]
  /\ UNCHANGED <<chatVars, panelVars, now, config, route, limiterVars, upstream>>

\* ------------------------------------------- the upstream generation (SDK)
\* the upstream produces one more text increment on result.textStream
UpstreamDelta(r) ==
  /\ LoopRunning(r)
  /\ upstream[r].state = "running"
  /\ Len(upstream[r].produced) < MaxDeltas
  /\ \E d \in Deltas :
       upstream' = [upstream EXCEPT ![r] = [@ EXCEPT !.produced = Append(@, d)]]
  /\ ev' = NoEvent
  /\ UNCHANGED <<chatVars, panelVars, now, config, route, limiterVars, req, stream>>

\* the model requests a tool call; the SDK runs tools.<name>.execute
UpstreamToolCall(r) ==
  /\ LoopRunning(r)
  /\ upstream[r].state = "running"
  /\ Len(upstream[r].tools) < MaxToolCalls
  /\ \E fetchOk \in BOOLEAN :
       upstream' = [upstream EXCEPT ![r] =
         [@ EXCEPT !.tools = Append(@, [fetchOk |-> fetchOk,
                                         outcome |-> ToolExecute(route, fetchOk)])]]
  /\ ev' = NoEvent
  /\ UNCHANGED <<chatVars, panelVars, now, config, route, limiterVars, req, stream>>

\* the upstream signals completion: textStream ends
UpstreamComplete(r) ==
  /\ LoopRunning(r)
  /\ upstream[r].state = "running"
  /\ upstream' = [upstream EXCEPT ![r] = [@ EXCEPT !.state = "completed"]]
  /\ ev' = NoEvent
  /\ UNCHANGED <<chatVars, panelVars, now, config, route, limiterVars, req, stream>>

\* the upstream raises: iterating textStream throws
UpstreamRaise(r) ==
  /\ LoopRunning(r)
  /\ upstream[r].state = "running"
  /\ upstream' = [upstream EXCEPT ![r] = [@ EXCEPT !.state = "failed"]]
  /\ ev' = NoEvent
  /\ UNCHANGED <<chatVars, panelVars, now, config, route, limiterVars, req, stream>>

\* ------------------------------------- ReadableStream start(controller)
\* route.ts:149-156  one iteration of `for await (const delta of textStream)`
RelayForward(r) ==
  /\ RelayRunning(r)
  /\ upstream[r].taken < Len(upstream[r].produced)
  /\ stream' = [stream EXCEPT ![r] =
       [@ EXCEPT !.frames = Append(@, DeltaFrame(upstream[r].produced[upstream[r].taken + 1])),
                 !.deltaCount = @ + 1]]
  /\ upstream' = [upstream EXCEPT ![r] = [@ EXCEPT !.taken = @ + 1]]
  /\ ev' = NoEvent
  /\ UNCHANGED <<chatVars, panelVars, now, config, route, limiterVars, req>>

\* mutation: controller.close() is missing after the done frame
RelayFinish_NoClose(r) ==
  /\ RelayRunning(r)
  /\ upstream[r].state = "completed"
  /\ upstream[r].taken = Len(upstream[r].produced)
  /\ CountDone(stream[r].frames) = 0
  /\ stream' = [stream EXCEPT ![r] =
       [@ EXCEPT !.frames = @ \o FinalFrames(route, stream[r].deltaCount)]]
  /\ ev' = NoEvent
  /\ UNCHANGED <<chatVars, panelVars, now, config, route, limiterVars, req, upstream>>

\* route.ts:158-165  the loop ended: (fallback,) done frame, controller.close()
RelayFinish(r) ==
  /\ RelayRunning(r)
  /\ upstream[r].state = "completed"
  /\ upstream[r].taken = Len(upstream[r].produced)
  /\ stream' = [stream EXCEPT ![r] =
       [@ EXCEPT !.frames = @ \o FinalFrames(route, stream[r].deltaCount),
                 !.state = "closed"]]
  /\ ev' = NoEvent
  /\ UNCHANGED <<chatVars, panelVars, now, config, route, limiterVars, req, upstream>>

\* mutation: the catch block of start() answers like the outer catch of POST
RelayCatch_Answers500(r) ==
  /\ RelayRunning(r)
  /\ upstream[r].state = "failed"
  /\ stream' = [stream EXCEPT ![r] = [@ EXCEPT !.state = "errored"]]
  /\ ev' = [Answer(NoEvent, InternalErrorResponse) EXCEPT !.op = "relay", !.r = r]
  /\ UNCHANGED <<chatVars, panelVars, now, config, route, limiterVars, req, upstream>>

\* mutation: the catch block sends the done frame before it errors the stream
RelayCatch_SendsDone(r) ==
  /\ RelayRunning(r)
  /\ upstream[r].state = "failed"
  /\ stream' = [stream EXCEPT ![r] =
       [@ EXCEPT !.frames = Append(@, DoneFrame), !.state = "errored"]]
  /\ ev' = NoEvent
  /\ UNCHANGED <<chatVars, panelVars, now, config, route, limiterVars, req, upstream>>

\* route.ts:166-169  catch: controller.error(error).  Increments the upstream
\* produced before it failed may or may not have been delivered first.
RelayCatch(r) ==
  /\ RelayRunning(r)
  /\ upstream[r].state = "failed"
  /\ stream' = [stream EXCEPT ![r] = [@ EXCEPT !.state = "errored"]]
  /\ ev' = NoEvent
  /\ UNCHANGED <<chatVars, panelVars, now, config, route, limiterVars, req, upstream>>

\* The client disconnects: the server cancels the response stream.  start()
\* passes no cancel callback (route.ts:145-146) and streamText gets no abort
\* signal (109-142), so the loop is not told.
Cancel(r) ==
  /\ RelayRunning(r)
  /\ stream' = [stream EXCEPT ![r] = [@ EXCEPT !.state = "cancelled"]]
  /\ ev' = NoEvent
  /\ UNCHANGED <<chatVars, panelVars, now, config, route, limiterVars, req, upstream>>

\* mutation: enqueue on a cancelled stream still queues the frame
RelayForwardCancelled_Enqueues(r) ==
  /\ stream[r].state = "cancelled"
  /\ upstream[r].taken < Len(upstream[r].produced)
  /\ stream' = [stream EXCEPT ![r] =
       [@ EXCEPT !.frames = Append(@, DeltaFrame(upstream[r].produced[upstream[r].taken + 1])),
                 !.deltaCount = @ + 1]]
  /\ upstream' = [upstream EXCEPT ![r] = [@ EXCEPT !.taken = @ + 1]]
  /\ ev' = NoEvent
  /\ UNCHANGED <<chatVars, panelVars, now, config, route, limiterVars, req>>

\* route.ts:149-156, 166-169  the next iteration after the cancel: enqueue
\* throws (the stream is no longer readable), the catch block's
\* controller.error does nothing on a stream that is not readable, start()
\* returns
RelayForwardCancelled(r) ==
  /\ stream[r].state = "cancelled"
  /\ upstream[r].taken < Len(upstream[r].produced)
  /\ stream' = [stream EXCEPT ![r] = [@ EXCEPT !.state = "released"]]
  /\ upstream' = [upstream EXCEPT ![r] = [@ EXCEPT !.taken = @ + 1]]
  /\ ev' = NoEvent
  /\ UNCHANGED <<chatVars, panelVars, now, config, route, limiterVars, req>>

\* route.ts:158-169  the loop ended after the cancel: the enqueue of the
\* (fallback or) done frame throws, start() returns through the catch block
RelayFinishCancelled(r) ==
  /\ stream[r].state = "cancelled"
  /\ upstream[r].state = "completed"
  /\ upstream[r].taken = Len(upstream[r].produced)
  /\ stream' = [stream EXCEPT ![r] = [@ EXCEPT !.state = "released"]]
  /\ ev' = NoEvent
  /\ UNCHANGED <<chatVars, panelVars, now, config, route, limiterVars, req, upstream>>

\* route.ts:166-169  the upstream raised after the cancel: controller.error
\* does nothing, start() returns
RelayCatchCancelled(r) ==
  /\ stream[r].state = "cancelled"
  /\ upstream[r].state = "failed"
  /\ stream' = [stream EXCEPT ![r] = [@ EXCEPT !.state = "released"]]
  /\ ev' = NoEvent
  /\ UNCHANGED <<chatVars, panelVars, now, config, route, limiterVars, req, upstream>>

\* ------------------------------------------------ actions/chat.ts: steps
\* the calls in flight that will insert into a table if they get that far
Pending(op) == Cardinality({c \in CallIds : call[c].op = op})

\* the event of a call by user u with an input ending with an outcome
Returned(c, op, u, id, role, title, outcome, queries) ==
  [NoChatEvent EXCEPT !.op = op, !.user = u, !.chatId = id,
                      !.role = role, !.title = title, !.outcome = outcome,
                      !.queries = queries, !.stale = call[c].stale]

\* the event of the call in slot c ending with an outcome after one more query
ReturnedFrom(c, outcome) ==
  Returned(c, call[c].op, call[c].user, call[c].chatId, call[c].role, "absent",
           outcome, call[c].queries + 1)

\* chat.ts:39-43, 85, 126, 170-173  A client calls a server action with some
\* session and some input: `await getCurrentUserId()` settles and the input
\* is parsed, which rejects the call or leaves it about to send its first
\* query.
CallAction(c) ==
  /\ call[c].pc = "idle"
  /\ \E op \in Ops, u \in Users \cup {NoUser} :
       /\ op = "createChat" => Len(db.chats) + Pending(op) < MaxChats
       /\ op = "appendMessage" => Len(db.messages) + Pending(op) < MaxStored
       /\ \E id \in (IF op \in {"getChat", "appendMessage"} THEN ChatIdInputs ELSE {NotUuid}),
             role \in (IF op = "appendMessage" THEN RoleInputs ELSE {"user"}),
             title \in (IF op = "createChat" THEN TitleInputs ELSE {"absent"}) :
            LET a == GetCurrentUserId(u)
                v == ParseInput(op, id, role, title)
                outcome == IF a # "ok" THEN a ELSE v
            IN IF outcome # "ok"
               THEN /\ call' = call
                    /\ cev' = Returned(c, op, u, id, role, title, outcome, 0)
               ELSE /\ call' = [call EXCEPT ![c] =
                         [IdleCall EXCEPT !.op = op, !.user = u,
                            !.chatId = id, !.role = role,
                            !.pc = CASE op = "createChat" -> "insertChat"
                                     [] op = "listChats" -> "select"
                                     [] OTHER -> "chat"]]
                    /\ cev' = NoChatEvent
  /\ UNCHANGED <<postVars, panelVars, db, dbLog>>

\* the other calls after slot c inserted a row: a listChats that has read the
\* chats already no longer sees the tables as they are
AfterInsert(c) ==
  [o \in CallIds |->
     IF o = c THEN IdleCall
     ELSE IF call[o].pc = "counts" THEN [call[o] EXCEPT !.stale = TRUE]
     ELSE call[o]]

\* chat.ts:52-73  createChat inserts the chat and returns it with messageCount 0
CreateInsert(c) ==
  /\ call[c].pc = "insertChat"
  /\ db' = InsertChat(db, call[c].user)
  /\ dbLog' = [dbLog EXCEPT !.created = Append(@, call[c].user)]
  /\ call' = AfterInsert(c)
  /\ cev' = [ReturnedFrom(c, "ok") EXCEPT
              !.chatId = Len(db'.chats), !.messageCount = 0]
  /\ UNCHANGED <<postVars, panelVars>>

\* chat.ts:89-97  listChats reads the user's chats; with none, Promise.all of
\* nothing resolves and [] is returned
ListSelect(c) ==
  /\ call[c].pc = "select"
  /\ LET userChats == SelectUserChats(db, call[c].user) IN
       IF userChats = <<>>
       THEN /\ call' = [call EXCEPT ![c] = IdleCall]
            /\ cev' = ReturnedFrom(c, "ok")
       ELSE /\ call' = [call EXCEPT ![c] =
                 [@ EXCEPT !.pc = "counts", !.chats = userChats,
                           !.counts = [i \in 1..Len(userChats) |-> -1],
                           !.queries = @ + 1]]
            /\ cev' = NoChatEvent
  /\ UNCHANGED <<postVars, panelVars, db, dbLog>>

\* chat.ts:100-112  one of the count queries of Promise.all is answered; the
\* last answer resolves Promise.all and listChats returns
ListCount(c) ==
  /\ call[c].pc = "counts"
  /\ \E i \in 1..Len(call[c].chats) :
       /\ call[c].counts[i] = -1
       /\ LET counts == [call[c].counts EXCEPT
                           ![i] = Len(SelectMessages(db, call[c].chats[i].id))]
          IN IF \A j \in 1..Len(counts) : counts[j] # -1
             THEN /\ call' = [call EXCEPT ![c] = IdleCall]
                  /\ cev' = [ReturnedFrom(c, "ok") EXCEPT
                       !.list = [j \in 1..Len(counts) |->
                                   ChatDTO(call[c].chats[j], counts[j])]]
             ELSE /\ call' = [call EXCEPT ![c] =
                       [@ EXCEPT !.counts = counts, !.queries = @ + 1]]
                  /\ cev' = NoChatEvent
  /\ UNCHANGED <<postVars, panelVars, db, dbLog>>

\* chat.ts:129-141, 176-188  getChat and appendMessage read the chat and
\* verify its owner
ChatLookup(c) ==
  /\ call[c].pc = "chat"
  /\ LET outcome == ChatAccess(SelectChat(db, call[c].chatId), call[c].user) IN
       IF outcome # "ok"
       THEN /\ call' = [call EXCEPT ![c] = IdleCall]
            /\ cev' = ReturnedFrom(c, outcome)
       ELSE /\ call' = [call EXCEPT ![c] =
                 [@ EXCEPT !.pc = IF call[c].op = "getChat" THEN "messages"
                                  ELSE "insertMessage",
                           !.queries = @ + 1]]
            /\ cev' = NoChatEvent
  /\ UNCHANGED <<postVars, panelVars, db, dbLog>>

\* chat.ts:144-163  getChat reads the messages and returns the chat
GetMessages(c) ==
  /\ call[c].pc = "messages"
  /\ call' = [call EXCEPT ![c] = IdleCall]
  /\ cev' = [ReturnedFrom(c, "ok") EXCEPT
              !.messages = SelectMessages(db, call[c].chatId)]
  /\ UNCHANGED <<postVars, panelVars, db, dbLog>>

\* chat.ts:190-207  appendMessage inserts the message and returns it
AppendInsert(c) ==
  /\ call[c].pc = "insertMessage"
  /\ db' = InsertMessage(db, call[c].chatId, call[c].role, call[c].user)
  /\ dbLog' = [dbLog EXCEPT !.appended[call[c].chatId] = @ + 1]
  /\ call' = AfterInsert(c)
  /\ cev' = ReturnedFrom(c, "ok")
  /\ UNCHANGED <<postVars, panelVars>>

\* --------------------------------------------------- ChatPanel.tsx: steps
\* the invocation slot a new call of sendMessage runs in
FreeSlot == IF send[1].pc = "idle" THEN 1 ELSE 2

\* a chat request of invocation s is in flight: fetch was called and its
\* response has not been read to the end
InFlight(s) == send[s].pc \in {"fetching", "reading"}

\* ChatPanel.tsx:412-425  catch and finally of sendMessage: the error is
\* shown, the apology is added to the conversation, the flags are cleared
Fail(s, outcome, status, error) ==
  /\ panel' = [panel EXCEPT !.messages = Append(@, ApologyMessage),
                            !.isLoading = FALSE]
  /\ send' = [send EXCEPT ![s] = IdleSend]
  /\ pev' = [NoPanelEvent EXCEPT
               !.op = "finished", !.s = s, !.outcome = outcome,
               !.status = status, !.error = error,
               !.text = send[s].text, !.fullContent = send[s].fullContent,
               !.frames = send[s].frames, !.appended = send[s].appended]

\* ChatPanel.tsx:406-410, 422-425  the persistence block ended (saved, or its
\* own catch showed the error): finally clears the flags
Finish(s, outcome, error) ==
  /\ panel' = [panel EXCEPT !.isLoading = FALSE]
  /\ send' = [send EXCEPT ![s] = IdleSend]
  /\ pev' = [NoPanelEvent EXCEPT
               !.op = "finished", !.s = s, !.outcome = outcome,
               !.status = 200, !.error = error,
               !.text = send[s].text, !.fullContent = send[s].fullContent,
               !.frames = send[s].frames, !.appended = send[s].appended]

\* ChatPanel.tsx:235-281  a send event (Enter, or a click on Send) runs the
\* sendMessage of the last render, up to its fetch call
SendMessage ==
  LET s == FreeSlot
      text == Trim(rendered.input)
  IN
    /\ send[s].pc = "idle"
    /\ IF text = <<>> \/ rendered.isLoading \/ rendered.currentChatId = NoChat
       THEN /\ pev' = [NoPanelEvent EXCEPT !.op = "ignored"]
            /\ UNCHANGED <<panel, send>>
       ELSE /\ panel.sends < MaxExchanges
            /\ panel' = [panel EXCEPT !.messages = Append(@, UserMessage),
                                      !.input = <<>>, !.isLoading = TRUE,
                                      !.sends = @ + 1]
            /\ send' = [send EXCEPT ![s] =
                 [IdleSend EXCEPT
                    !.pc = "fetching", !.text = text,
                    !.chatId = rendered.currentChatId,
                    !.body = PrepareMessagesForAPI(rendered.messages, text)]]
            /\ pev' = [NoPanelEvent EXCEPT
                 !.op = "send", !.s = s, !.text = text,
                 !.body = PrepareMessagesForAPI(rendered.messages, text),
                 !.inFlight = Cardinality({x \in SendIds : InFlight(x)})]
    /\ UNCHANGED <<postVars, chatVars, rendered>>

\* ChatPanel.tsx:630  onChange of the input, which the last render left enabled
TypeInput ==
  /\ ~rendered.isLoading
  /\ rendered.currentChatId # NoChat
  /\ \E v \in Inputs :
       /\ v # panel.input
       /\ panel' = [panel EXCEPT !.input = v]
  /\ pev' = NoPanelEvent
  /\ UNCHANGED <<postVars, chatVars, rendered, send>>

\* React renders the component again with its current state
Render ==
  /\ rendered # panel
  /\ rendered' = panel
  /\ pev' = NoPanelEvent
  /\ UNCHANGED <<postVars, chatVars, panel, send>>

\* the statuses fetch can resolve with (route: 200, 401, 429, 400, 500), and
\* 0 for a fetch that rejects
FetchOutcomes == {200, 401, 429, 400, 500, 0}

\* ChatPanel.tsx:283-292  the message of the Error thrown for a response
HttpError(status) ==
  IF status = 429 THEN "Rate limit exceeded. Please wait"
  ELSE IF status = 401 THEN "Authentication required. Please sign in again."
  ELSE IF status = 0 THEN "fetch failed"
  ELSE "HTTP error! status"

\* ChatPanel.tsx:273-301  fetch settles: a 2xx response is read, anything
\* else is thrown to the catch block
FetchReturns(s) ==
  /\ send[s].pc = "fetching"
  /\ \E status \in FetchOutcomes :
       IF status = 200
       THEN /\ send' = [send EXCEPT ![s] = [@ EXCEPT !.pc = "reading"]]
            /\ pev' = [NoPanelEvent EXCEPT !.op = "response", !.s = s, !.status = 200]
            /\ UNCHANGED panel
       ELSE Fail(s, "rejected", status, HttpError(status))
  /\ UNCHANGED <<postVars, chatVars, rendered>>

\* the frames an event stream can carry
Frames == {DeltaFrame(d) : d \in Deltas} \cup {DoneFrame}

\* ChatPanel.tsx:303-323  reader.read() gives one frame of the stream
ReadFrame(s) ==
  /\ send[s].pc = "reading"
  /\ CountDone(send[s].frames) = 0
  /\ \E f \in Frames :
       /\ f.type = "text-delta" => Len(send[s].frames) < MaxDeltas
       /\ send' = [send EXCEPT ![s] =
            [@ EXCEPT !.fullContent = ProcessFrame(@, f),
                      !.frames = Append(@, f)]]
       /\ pev' = [NoPanelEvent EXCEPT !.op = "frame", !.s = s]
  /\ UNCHANGED <<postVars, chatVars, panel, rendered>>

\* mutation: the reply is stored before the user message
ReadEnd_ReplyFirst(s) ==
  /\ send[s].pc = "reading"
  /\ LET kind == ToolKindOf(send[s].fullContent) IN
       /\ panel' = [panel EXCEPT !.messages =
            @ \o <<AssistantMessage(CountDone(send[s].frames) > 0)>>
              \o (IF kind # "none" THEN <<ToolMessage>> ELSE <<>>)]
       /\ send' = [send EXCEPT ![s] =
            [@ EXCEPT !.pc = "appendUser", !.toolKind = kind,
                      !.appended = <<[role |-> "assistant",
                                      content |-> send[s].fullContent]>>]]
  /\ pev' = [NoPanelEvent EXCEPT !.op = "end", !.s = s, !.text = send[s].text,
               !.frames = send[s].frames, !.fullContent = send[s].fullContent]
  /\ UNCHANGED <<postVars, chatVars, rendered>>

\* ChatPanel.tsx:304-305, 325-387  reader.read() reports the end of the body,
\* whether or not a done frame came before it: the text is added to the
\* conversation (with a card if a keyword matched) and appendMessage is
\* called for the user message
ReadEnd(s) ==
  /\ send[s].pc = "reading"
  /\ LET kind == ToolKindOf(send[s].fullContent) IN
       /\ panel' = [panel EXCEPT !.messages =
            @ \o <<AssistantMessage(CountDone(send[s].frames) > 0)>>
              \o (IF kind # "none" THEN <<ToolMessage>> ELSE <<>>)]
       /\ send' = [send EXCEPT ![s] =
            [@ EXCEPT !.pc = "appendUser", !.toolKind = kind,
                      !.appended = <<[role |-> "user", content |-> send[s].text]>>]]
  /\ pev' = [NoPanelEvent EXCEPT !.op = "end", !.s = s, !.text = send[s].text,
               !.frames = send[s].frames, !.fullContent = send[s].fullContent]
  /\ UNCHANGED <<postVars, chatVars, rendered>>

\* ChatPanel.tsx:304, 412-425  reader.read() rejects: the catch block
ReadFails(s) ==
  /\ send[s].pc = "reading"
  /\ Fail(s, "streamFailed", 200, "stream error")
  /\ UNCHANGED <<postVars, chatVars, rendered>>

\* ChatPanel.tsx:382-410  an appendMessage call settles: the next one is
\* made, or the block ends; a rejection skips the calls left
AppendReturns(s) ==
  /\ send[s].pc \in {"appendUser", "appendAssistant", "appendTool"}
  /\ \E ok \in BOOLEAN :
       IF ~ok THEN Finish(s, "saveFailed", "Failed to save message")
       ELSE IF send[s].pc = "appendUser"
       THEN /\ send' = [send EXCEPT ![s] =
                 [@ EXCEPT !.pc = "appendAssistant",
                           !.appended = Append(@, [role |-> "assistant",
                                                   content |-> send[s].fullContent])]]
            /\ pev' = [NoPanelEvent EXCEPT !.op = "append", !.s = s]
            /\ UNCHANGED panel
       ELSE IF send[s].pc = "appendAssistant" /\ send[s].toolKind # "none"
       THEN /\ send' = [send EXCEPT ![s] =
                 [@ EXCEPT !.pc = "appendTool",
                           !.appended = Append(@, [role |-> "tool",
                                                   content |-> <<send[s].toolKind>>])]]
            /\ pev' = [NoPanelEvent EXCEPT !.op = "append", !.s = s]
            /\ UNCHANGED panel
       ELSE Finish(s, "saved", "none")
  /\ UNCHANGED <<postVars, chatVars, rendered>>

\* --------------------------------------------------------- specifications
\* the limiter on its own: calls by any identity, the clock and the sweep
NextLimiter ==
  \/ Tick
  \/ Cleanup
  \/ \E id \in Users : CheckLimit(id)

SpecLimiter == Init /\ [][NextLimiter]_vars

\* the limiter with the admissions of every interval counted, for the
\* configurations whose windows end within the clock's range
NextBurst ==
  \/ Tick
  \/ Cleanup
  \/ \E id \in Users : CheckLimitCounted(id)

InitBurst == Init /\ config # DefaultConfig

SpecBurst == InitBurst /\ [][NextBurst]_vars

\* one caller at a time that is denied, waits as told and asks again
NextRetry ==
  \/ Tick
  \/ Arrive(1)
  \/ Authenticate(1)
  \/ RateLimitGuided(1)
  \/ Validate(1)
  \/ OpenFails(1)
  \/ Respond200(1)
  \/ \E u \in Users : Sleep(u)

InitRetry ==
  /\ Init
  /\ route = "gemini"

SpecRetry == InitRetry /\ [][NextRetry]_vars

\* the POST handlers, concurrently in flight, up to their responses
NextPost ==
  \/ Tick
  \/ Cleanup
  \/ \E r \in ReqIds : Arrive(r)
  \/ \E r \in ReqIds : Authenticate(r)
  \/ \E r \in ReqIds : RateLimit(r)
  \/ \E r \in ReqIds : Validate(r)
  \/ \E r \in ReqIds : OpenFails(r)
  \/ \E r \in ReqIds : Respond200(r)

InitPost ==
  /\ Init
  /\ config = [maxRequests |-> MaxCfgRequests, windowMs |-> MaxCfgWindow]
  /\ route = "gemini"

SpecPost == InitPost /\ [][NextPost]_vars

\* one request at a time, from its arrival to the end of its response stream
NextRelay ==
  \/ Arrive(1)
  \/ Authenticate(1)
  \/ RateLimit(1)
  \/ Validate(1)
  \/ OpenFails(1)
  \/ Respond200(1)
  \/ UpstreamDelta(1)
  \/ UpstreamToolCall(1)
  \/ UpstreamComplete(1)
  \/ UpstreamRaise(1)
  \/ RelayForward(1)
  \/ RelayFinish(1)
  \/ RelayCatch(1)

SpecRelay == Init /\ [][NextRelay]_vars

\* One request at a time followed to the end of its stream: the next request
\* takes the handler's place only when start() of the response before it
\* has returned.
ArriveAfterStream(r) == ~LoopRunning(r) /\ Arrive(r)

NextLive ==
  \/ ArriveAfterStream(1) \/ Authenticate(1) \/ RateLimit(1) \/ Validate(1)
  \/ OpenFails(1) \/ Respond200(1)
  \/ UpstreamDelta(1) \/ UpstreamToolCall(1) \/ UpstreamComplete(1)
  \/ UpstreamRaise(1)
  \/ RelayForward(1) \/ RelayFinish(1) \/ RelayCatch(1)

InitLive ==
  Init /\ config = [maxRequests |-> MaxCfgRequests, windowMs |-> MaxCfgWindow]

\* The event loop resumes a continuation whose awaited promise has settled:
\* POST after `await streamText` (it returns the stream or the catch answers),
\* and start() after each `for await` step (it forwards the increment, or
\* leaves the loop and closes).  Nothing obliges a client to send a request,
\* or the upstream to produce or to complete.
SpecLive ==
  /\ InitLive /\ [][NextLive]_vars
  /\ WF_vars(Respond200(1) \/ OpenFails(1))
  /\ WF_vars(RelayForward(1))
  /\ WF_vars(RelayFinish(1))
  /\ WF_vars(RelayCatch(1))

\* one request at a time followed to the end of its stream, which the client
\* may leave at any moment
NextCancel ==
  \/ ArriveAfterStream(1) \/ Authenticate(1) \/ RateLimit(1) \/ Validate(1)
  \/ OpenFails(1) \/ Respond200(1)
  \/ UpstreamDelta(1) \/ UpstreamToolCall(1) \/ UpstreamComplete(1)
  \/ UpstreamRaise(1)
  \/ RelayForward(1) \/ RelayFinish(1) \/ RelayCatch(1)
  \/ Cancel(1)
  \/ RelayForwardCancelled(1) \/ RelayFinishCancelled(1) \/ RelayCatchCancelled(1)

\* The event loop resumes start() after each `for await` step, also when the
\* stream was cancelled meanwhile.  Nothing obliges the client to stay or to
\* leave, or the upstream to produce or to complete.
SpecCancel ==
  /\ InitLive /\ [][NextCancel]_vars
  /\ WF_vars(Respond200(1) \/ OpenFails(1))
  /\ WF_vars(RelayForward(1))
  /\ WF_vars(RelayFinish(1))
  /\ WF_vars(RelayCatch(1))
  /\ WF_vars(RelayForwardCancelled(1))
  /\ WF_vars(RelayFinishCancelled(1))
  /\ WF_vars(RelayCatchCancelled(1))

\* the ChatPanel: send events, typing, renders, and what fetch, the stream
\* reader and appendMessage give back
\* a send event that comes to a panel that shows its current state
SendAfterRender == rendered = panel /\ SendMessage

NextPanel ==
  \/ SendAfterRender
  \/ TypeInput
  \/ Render
  \/ FetchReturns(1)
  \/ ReadFrame(1)
  \/ ReadEnd(1)
  \/ ReadFails(1)
  \/ AppendReturns(1)

\* ChatPanel.tsx:31-40, 86-98  the mounted panel: no chat selected, or a chat
\* with the messages hydrated from SSR; /api/chat is served by either
\* variant of the route
InitPanel ==
  /\ InitServer
  /\ config = DefaultConfig
  /\ \E c \in {NoChat, 1} : \E h \in InitialMessages :
       /\ c = NoChat => h = <<>>
       /\ panel = [messages |-> h, input |-> <<>>, isLoading |-> FALSE,
                   currentChatId |-> c, sends |-> 0]
  /\ rendered = panel
  /\ send = [s \in SendIds |-> IdleSend]
  /\ pev = NoPanelEvent

SpecPanel == InitPanel /\ [][NextPanel]_vars

\* the ChatPanel with send events at any moment, also before the render that
\* follows a state change
NextRace ==
  \/ SendMessage
  \/ TypeInput
  \/ Render
  \/ \E s \in SendIds : FetchReturns(s)
  \/ \E s \in SendIds : ReadFrame(s)
  \/ \E s \in SendIds : ReadEnd(s)
  \/ \E s \in SendIds : ReadFails(s)
  \/ \E s \in SendIds : AppendReturns(s)

\* a panel mounted on a chat with no messages yet
InitRace ==
  /\ InitPanel
  /\ route = "gemini"
  /\ panel.currentChatId # NoChat
  /\ panel.messages = <<>>

SpecRace == InitRace /\ [][NextRace]_vars

\* the server actions of chat.ts, called concurrently by any users
NextChat ==
  \E c \in CallIds :
    \/ CallAction(c)
    \/ CreateInsert(c)
    \/ ListSelect(c) \/ ListCount(c)
    \/ ChatLookup(c) \/ GetMessages(c)
    \/ AppendInsert(c)

SpecChat == InitPost /\ [][NextChat]_vars


\* ------------------------------------------------------------------ claims
\* the last step was a checkLimit call
Called == ev.op = "checkLimit"

\* the call of the last step fell inside the window that was current before it
InWindow == ev.endBefore # 0 /\ ev.at <= ev.endBefore

\* the call of the last step came after the end of the window before it
AfterWindow == ev.endBefore # 0 /\ ev.at > ev.endBefore

\* C1: an identity's calls in one window, counted from the call that opens
\* it, are all admitted as long as there are maxRequests or fewer of them.
C1_AdmitsUpToMax ==
  (Called /\ ev.nth <= config.maxRequests) => ev.res.success

\* C1 witness: the maxRequests-th call of a window, at the last instant of the
\* window, was admitted
C1_Witness ==
  /\ Called
  /\ config.maxRequests >= 2
  /\ ev.nth = config.maxRequests
  /\ ev.at = ev.endBefore
  /\ ev.res.success

\* C2: once maxRequests calls of an identity have been admitted in its
\* current window, every further call of that identity up to and including
\* windowEnd is denied, whatever the other identities did in between.
C2_DeniesBeyondMax ==
  (Called /\ InWindow /\ ev.admittedBefore >= config.maxRequests)
    => ~ev.res.success

\* C2 witness: a call was denied in a full window while another identity has
\* a window of its own open
C2_Witness ==
  /\ Called
  /\ InWindow
  /\ ev.admittedBefore = config.maxRequests
  /\ ~ev.res.success
  /\ \E u \in Users \ {ev.id} : u \in DOMAIN rateLimitStore /\ winAdmitted[u] >= 1

\* C3: the first call after windowEnd has passed is admitted however many
\* calls the old window saw, leaves the entry at count = 1 and
\* windowEnd = now + windowMs, and reports remaining = maxRequests - 1.
C3_ReopensAfterEnd ==
  (Called /\ AfterWindow) =>
    /\ ev.res.success
    /\ ev.res.remaining = config.maxRequests - 1
    /\ ev.res.resetTime = ev.at + config.windowMs
    /\ ev.id \in DOMAIN rateLimitStore
    /\ rateLimitStore[ev.id] = [count |-> 1, resetTime |-> ev.at + config.windowMs]

\* C3 witness: the old window was full, had denied a call, and its stale entry
\* was still in the table when the call after its end came
C3_Witness ==
  /\ Called
  /\ AfterWindow
  /\ ev.had
  /\ ev.prev.count = config.maxRequests
  /\ ev.callsBefore > config.maxRequests
  /\ ev.res.success

\* C4 (as claimed): a call made at a time equal to the entry's windowEnd
\* finds the entry expired: it is admitted and starts a window with count = 1.
C4_ExpiresAtWindowEnd ==
  (Called /\ ev.had /\ ev.at = ev.prev.resetTime) =>
    /\ ev.res.success
    /\ ev.id \in DOMAIN rateLimitStore
    /\ rateLimitStore[ev.id] = [count |-> 1, resetTime |-> ev.at + config.windowMs]

\* C5: however the in-flight requests of one identity interleave, the calls
\* admitted in one window never number more than maxRequests.
C5_NoLostUpdates ==
  \A u \in Users : winAdmitted[u] <= config.maxRequests

\* C5 witness: a request was denied in a full window while another request of
\* the same identity, admitted in that window, is still in flight
C5_Witness ==
  /\ Called
  /\ ev.status = 429
  /\ InWindow
  /\ winAdmitted[ev.id] = config.maxRequests
  /\ \E r \in ReqIds \ {ev.r} : req[r].user = ev.id /\ req[r].pc = "body"

\* the stream of r ended successfully
Closed(r) == stream[r].state = "closed"

\* the frames of r end with the one and only done frame
EndsWithOneDone(r) ==
  /\ CountDone(stream[r].frames) = 1
  /\ stream[r].frames[Len(stream[r].frames)] = DoneFrame

C7_ToolFailureIsData ==
  \A r \in ReqIds : \A i \in 1..Len(upstream[r].tools) :
    ~upstream[r].tools[i].fetchOk => upstream[r].tools[i].outcome = "errorPayload"

\* C8: when the upstream raises after streaming started, the stream goes to
\* the error state without a done frame, the frames already sent stay as they
\* are, and nothing is sent on that stream afterwards.
C8_ErrorEndsStream ==
  /\ [](\A r \in ReqIds :
          upstream[r].state = "failed" =>
            /\ stream[r].state \in {"readable", "errored"}
            /\ CountDone(stream[r].frames) = 0)
  /\ [][\A r \in ReqIds :
          /\ (stream[r].state = "readable" /\ stream'[r].state = "errored")
               => stream'[r].frames = stream[r].frames
          /\ (stream[r].state = "errored" /\ stream'[r] # NoStream)
               => stream'[r] = stream[r]]_vars

\* C8 witness: a stream is in the error state after text-delta frames went out
C8_Witness ==
  \E r \in ReqIds :
    /\ stream[r].state = "errored"
    /\ upstream[r].state = "failed"
    /\ Len(stream[r].frames) >= 1

\* the last step validated the body of a request that carried a messages list
Validated == ev.op = "validate" /\ ev.json

\* C9 (as claimed): an authenticated, admitted request whose messages list
\* does not end with a user entry is answered 400 and opens no upstream call.
C9_NotUserIs400 ==
  (Validated /\ ev.last # "user") =>
    (ev.status = 400 /\ upstream[ev.r].state = "none")

\* C10 (as claimed): a request answered 400 for a last message of role
\* assistant has not changed the rate-window table.
C10_RejectedKeepsQuota ==
  (Validated /\ ev.status = 400 /\ ev.last = "assistant") => ~ev.wrote

\* C10 (amended): a request answered 400 for a last message of role assistant
\* has consumed quota: its checkLimit call was admitted and wrote the caller's
\* entry before the body was looked at; the validation step itself leaves the
\* table as it is.
C10_RejectedAfterConsuming ==
  /\ []((Validated /\ ev.status = 400 /\ ev.last = "assistant") => ev.wrote)
  /\ [][ev'.op = "validate" => rateLimitStore' = rateLimitStore]_vars

\* C10 witness: a 400 for a last message of role assistant, with the caller's
\* entry in the table
C10_Witness ==
  /\ Validated
  /\ ev.status = 400
  /\ ev.last = "assistant"
  /\ ev.wrote
  /\ ev.id \in DOMAIN rateLimitStore

Denied == Called /\ ev.r # 0 /\ ~ev.res.success

\* C12: whenever checkLimit denies an authenticated chat request the answer
\* is 429 with X-RateLimit-Limit = maxRequests (10 for the default limiter),
\* X-RateLimit-Remaining = 0, X-RateLimit-Reset = the end of the identity's
\* window, Retry-After = the seconds until then, and a body of exactly
\* error, limit, resetTime and retryAfter; the handler is done without
\* having read the body, and no upstream generation is open.
C12_DeniedIs429 ==
  Denied =>
    /\ ev.status = 429
    /\ ev.headers["X-RateLimit-Limit"] = ToString(config.maxRequests)
    /\ config = DefaultConfig => ev.headers["X-RateLimit-Limit"] = "10"
    /\ ev.headers["X-RateLimit-Remaining"] = "0"
    /\ ev.headers["X-RateLimit-Reset"] = IsoString(ev.endBefore)
    /\ ev.headers["Retry-After"] =
         ToString(CeilDiv(ev.endBefore - ev.at, MsPerSecond))
    /\ DOMAIN ev.body = {"error", "limit", "resetTime", "retryAfter"}
    /\ ev.body.error = "Rate limit exceeded"
    /\ ev.body.limit = config.maxRequests
    /\ ev.body.resetTime = IsoString(ev.endBefore)
    /\ ev.body.retryAfter = CeilDiv(ev.endBefore - ev.at, MsPerSecond)
    /\ req[ev.r].pc = "idle"
    /\ upstream[ev.r].state = "none"

\* C12 witness: the default limiter denied the eleventh request of a window
C12_Witness ==
  /\ Denied
  /\ config = DefaultConfig
  /\ ev.callsBefore = 10
  /\ ev.status = 429
  /\ ev.headers["Retry-After"] = "60"

\* the body read by the last step fails schema validation (it is not JSON
\* with a messages list, or an entry has a role outside the schema's enum)
\* or its messages list is empty
Malformed == ev.op = "validate" /\ (~ev.schemaOk \/ ev.last = "none")

\* C13 (as claimed): a malformed body is rejected with 400, and no upstream
\* generation is open for the request.
C13_MalformedIs400 ==
  Malformed => (ev.status = 400 /\ upstream[ev.r].state = "none")

\* C14: a failure before the streaming response is returned (the upstream
\* call failing to open, or an exception while the body is read) is answered
\* 500 with the body {error: "Internal server error"}, and the request has no
\* stream, hence no event frame; and no step taken while the stream of a
\* returned response exists answers 500 for that request.
C14_FailureBeforeStreamIs500 ==
  /\ [](ev.op = "open" => ev.status = 500)
  /\ [](ev.status = 500 =>
          /\ ev.body = [error |-> "Internal server error"]
          /\ req[ev.r].pc = "idle"
          /\ stream[ev.r] = NoStream)
  /\ [][\A r \in ReqIds :
          (stream[r].state # "none" /\ stream'[r].state # "none")
            => ~(ev'.status = 500 /\ ev'.r = r)]_vars

\* C14 witness: the upstream call of an admitted, valid request failed to
\* open and the request was answered 500
C14_Witness ==
  /\ ev.op = "open"
  /\ ev.status = 500
  /\ ev.id \in DOMAIN rateLimitStore
  /\ stream[ev.r].frames = <<>>

\* C15: an authenticated, admitted request whose body fits the schema and
\* ends with a user message is not rejected; it is then answered, with 200
\* and Content-Type text/event-stream unless the upstream failed to open; and
\* once the upstream has signalled completion the relay eventually has sent
\* the done frame as its last frame and closed the stream.
C15_CompletesWithDone ==
  /\ []((ev.op = "validate" /\ ev.schemaOk /\ ev.last = "user") =>
          (ev.status = 0 /\ req[ev.r].pc = "opening"))
  /\ [](ev.op = "respond" =>
          /\ ev.status = 200
          /\ ev.headers["Content-Type"] = "text/event-stream"
          /\ stream[ev.r].state = "readable")
  /\ (req[1].pc = "opening") ~> (ev.op \in {"respond", "open"})
  /\ (RelayRunning(1) /\ upstream[1].state = "completed")
       ~> (Closed(1) /\ EndsWithOneDone(1))

\* C15 witness: a stream that relayed an increment ended with done and closed
C15_Witness ==
  /\ Closed(1)
  /\ EndsWithOneDone(1)
  /\ upstream[1].state = "completed"
  /\ Len(upstream[1].produced) >= 1
  /\ Len(stream[1].frames) >= 2

\* a server action call ended in the last step
Ended == cev.op \in Ops

\* the chats createChat has returned, by id, and their owners
CreatedIds == 1..Len(dbLog.created)
OwnerOf(id) == dbLog.created[id]

\* C16: createChat, listChats, getChat and appendMessage, called without a
\* session user id, reject with 'Unauthorized: User not authenticated'
\* whatever their input, having run no query; the tables are as they were and
\* no call that is past its session check is anonymous.
C16_UnauthenticatedRejected ==
  /\ []((Ended /\ cev.user = NoUser) =>
          /\ cev.outcome = "Unauthorized: User not authenticated"
          /\ cev.queries = 0)
  /\ [](\A c \in CallIds : call[c].pc # "idle" => call[c].user # NoUser)
  /\ [][(cev'.op \in Ops /\ cev'.user = NoUser) => db' = db]_vars

\* C16 witness: an anonymous appendMessage naming an existing chat, with a
\* valid input, was rejected while the tables hold a chat
C16_Witness ==
  /\ Ended
  /\ cev.op = "appendMessage"
  /\ cev.user = NoUser
  /\ cev.chatId \in CreatedIds
  /\ cev.role \in ChatRoles
  /\ cev.outcome = "Unauthorized: User not authenticated"
  /\ Len(db.chats) >= 1

\* every stored message belongs to an existing chat and was inserted by a
\* call of that chat's owner
StoredMessagesOwned ==
  \A i \in 1..Len(db.messages) :
    /\ db.messages[i].chatId \in CreatedIds
    /\ db.messages[i].by = OwnerOf(db.messages[i].chatId)

\* C17 (as claimed): a getChat or appendMessage call of an authenticated
\* user (appendMessage with a role of the enum) rejects with 'Chat not found'
\* when no chat has the id it names and with 'Unauthorized: Access denied to
\* this chat' when the chat is another user's, returning no message; and
\* every stored message belongs to an existing chat and was appended by that
\* chat's owner.
C17_ForeignOrMissingRejected ==
  /\ (Ended /\ cev.op \in {"getChat", "appendMessage"}
       /\ cev.user # NoUser /\ cev.role \in ChatRoles) =>
       /\ cev.chatId \notin CreatedIds => cev.outcome = "Chat not found"
       /\ (cev.chatId \in CreatedIds /\ OwnerOf(cev.chatId) # cev.user) =>
            cev.outcome = "Unauthorized: Access denied to this chat"
       /\ cev.outcome # "ok" => cev.messages = <<>>
  /\ StoredMessagesOwned

\* C18: a listChats call that no insert overlapped returns exactly the chats
\* createChat has returned to that user, the later created first, each with
\* the number of appendMessage calls on it that returned as messageCount;
\* createChat returns messageCount 0.
C18_ListingsComplete ==
  /\ (Ended /\ cev.op = "listChats" /\ cev.outcome = "ok" /\ ~cev.stale) =>
       /\ {cev.list[j].id : j \in DOMAIN cev.list}
            = {i \in CreatedIds : OwnerOf(i) = cev.user}
       /\ \A j, k \in DOMAIN cev.list : j < k => cev.list[j].id > cev.list[k].id
       /\ \A j \in DOMAIN cev.list :
            cev.list[j].messageCount = dbLog.appended[cev.list[j].id]
  /\ (Ended /\ cev.op = "createChat" /\ cev.outcome = "ok") => cev.messageCount = 0

\* C18 witness: a listing of two chats, one of them with a message
C18_Witness ==
  /\ Ended
  /\ cev.op = "listChats"
  /\ cev.outcome = "ok"
  /\ ~cev.stale
  /\ Len(cev.list) = 2
  /\ \E j \in DOMAIN cev.list : cev.list[j].messageCount = 1

\* C19: a denied checkLimit call leaves the whole table as it was, and
\* reports remaining = 0 and as resetTime the end of the caller's entry,
\* which is still the end of the window the call fell in: denied calls do
\* not postpone the reset.
C19_DeniedChangesNothing ==
  /\ [][(ev'.op = "checkLimit" /\ ~ev'.res.success) =>
          rateLimitStore' = rateLimitStore]_vars
  /\ []((Called /\ ~ev.res.success) =>
          /\ ev.had
          /\ ev.res.remaining = 0
          /\ ev.res.resetTime = ev.prev.resetTime
          /\ ev.res.resetTime = ev.endBefore
          /\ rateLimitStore[ev.id] = ev.prev)

\* C19 witness: a call was denied after an earlier denial in the same
\* window, at a later time than the call that opened the window, while
\* another identity has an entry
C19_Witness ==
  /\ Called
  /\ ~ev.res.success
  /\ ev.callsBefore > config.maxRequests
  /\ ev.at + config.windowMs > ev.endBefore
  /\ \E u \in Users \ {ev.id} : u \in DOMAIN rateLimitStore

\* C20: the k-th admitted call of a window reports
\* remaining = maxRequests - k, and every call of the window, admitted or
\* denied, reports as resetTime the time of the call that opened the window
\* plus windowMs.
C20_RemainingCountsDown ==
  Called =>
    /\ ev.res.success => ev.res.remaining = config.maxRequests - winAdmitted[ev.id]
    /\ ev.res.success => winAdmitted[ev.id] \in 1..config.maxRequests
    /\ ev.res.resetTime = winEnd[ev.id]

\* C20 witness: the last admitted call of a window of at least two, made
\* later than the call that opened the window
C20_Witness ==
  /\ Called
  /\ ev.res.success
  /\ config.maxRequests >= 2
  /\ winAdmitted[ev.id] = config.maxRequests
  /\ ev.res.remaining = 0
  /\ ev.at + config.windowMs > ev.res.resetTime

\* C21: a step removes an entry from the table only when the entry's
\* resetTime has passed, and no step removes anything else or changes what
\* it keeps unless it is the caller's entry; and every checkLimit call
\* returns the decision (success, remaining, resetTime) it would have
\* returned had cleanup never run, whenever cleanup ran before it.
C21_SweepKeepsDecisions ==
  /\ [][\A k \in DOMAIN rateLimitStore \ DOMAIN rateLimitStore' :
          now > rateLimitStore[k].resetTime]_vars
  /\ [][(ev'.op # "checkLimit") =>
          \A k \in DOMAIN rateLimitStore' :
            k \in DOMAIN rateLimitStore /\ rateLimitStore'[k] = rateLimitStore[k]]_vars
  /\ [](Called => ev.res = ev.resNoSweep)

\* C21 witness: the entry of a full window had been swept when its identity
\* called again, and the call was admitted as it would have been over the
\* stale entry
C21_Witness ==
  /\ Called
  /\ ~ev.had
  /\ ev.endBefore # 0
  /\ ev.callsBefore > config.maxRequests
  /\ ev.res.success
  /\ ev.res = ev.resNoSweep

\* C22: for every identity and every interval [a, a + windowMs], the calls
\* of the identity admitted at instants of the interval number at most
\* 2 * maxRequests.
C22_BurstAtMostTwice ==
  \A u \in Users : \A a \in 0..MaxTime :
    admittedIn[u][a] <= 2 * config.maxRequests

\* C22 witness: an interval of length windowMs that spans the end of one
\* window and the start of the next holds more admitted calls than
\* maxRequests
C22_Witness ==
  /\ Called
  /\ ev.res.success
  /\ \E a \in 0..MaxTime :
       /\ a + config.windowMs < winEnd[ev.id]
       /\ admittedIn[ev.id][a] > config.maxRequests

\* ------------------------------------------------------------------ C23
\* the last step was a checkLimit call of POST for an identity whose last
\* answer was a 429, made no earlier than that 429 told it to wait for
Reissued ==
  /\ ev'.op = "checkLimit" /\ ev'.r # 0
  /\ retryFrom[ev'.id] # -1
  /\ ev'.at >= retryFrom[ev'.id]

\* C23: the retry guidance of a 429 is sufficient: retryAfter is never
\* negative, and the request a caller re-issues after waiting the reported
\* retryAfter seconds from the denial is admitted.
C23_RetryGuidanceSufficient ==
  /\ [](Denied => ev.body.retryAfter >= 0)
  /\ [][Reissued => ev'.res.success]_vars

\* ------------------------------------------------------------------ C24
\* the client of the stream of handler 1 has disconnected
Disconnected == stream[1].state \in {"cancelled", "released"}

\* the upstream has something the loop of handler 1 has not consumed yet
UpstreamPending ==
  \/ upstream[1].taken < Len(upstream[1].produced)
  \/ upstream[1].state \in {"completed", "failed"}

\* C24: once the client has disconnected no frame is added to its stream,
\* neither a text-delta nor done, and start() stays returned once it has;
\* and the forwarding loop ends on each of its paths, leaving the stream
\* closed, errored or released, never readable: after the upstream's
\* completion, after its failure, and after a disconnect at the loop's next
\* step (the next increment, the completion or the failure of the upstream).
C24_CancelStopsRelay ==
  /\ [][Disconnected =>
          (stream'[1] = NoStream \/
           (Disconnected' /\ stream'[1].frames = stream[1].frames))]_vars
  /\ [][(stream[1].state = "released" /\ stream'[1] # NoStream) =>
          stream'[1] = stream[1]]_vars
  /\ (LoopRunning(1) /\ upstream[1].state = "completed")
       ~> (stream[1].state \in {"closed", "released"})
  /\ (LoopRunning(1) /\ upstream[1].state = "failed")
       ~> (stream[1].state \in {"errored", "released"})
  /\ (stream[1].state = "cancelled" /\ UpstreamPending)
       ~> (stream[1].state = "released")

\* C24 witness: the client left after a frame, the upstream produced another
\* increment, the loop took it, forwarded nothing and returned
C24_Witness ==
  /\ stream[1].state = "released"
  /\ Len(stream[1].frames) >= 1
  /\ CountDone(stream[1].frames) = 0
  /\ upstream[1].taken > stream[1].deltaCount

\* ------------------------------------------------------------------ C25
\* xs is an initial part of ys
IsPrefix(xs, ys) == Len(xs) <= Len(ys) /\ SubSeq(ys, 1, Len(xs)) = xs

\* The appendMessage calls one exchange is to make: the user message as
\* typed, the assistant message with the text of the text-delta frames read,
\* and the tool message if the conversation got a card.
ExpectedAppends(text, frames, conversation) ==
  <<[role |-> "user", content |-> text],
    [role |-> "assistant", content |-> Concat(DeltaPayloads(frames))]>>
  \o (IF conversation[Len(conversation)].role = "tool"
      THEN <<[role |-> "tool", content |-> <<ToolKindOf(Concat(DeltaPayloads(frames)))>>]>>
      ELSE <<>>)

\* C25: the browser asks for persistence only once the reader has reported
\* the end of the event stream; the appendMessage calls of one sendMessage
\* are, in this order, the user message, the assistant message with the
\* accumulated delta text and the tool message if any (a rejected call ends
\* the sequence); and a sendMessage whose request was rejected (401, 429,
\* another non-2xx, no response) or whose stream failed made no call.
C25_PersistAfterStream ==
  /\ send[1].appended # <<>> =>
       /\ send[1].pc \in {"appendUser", "appendAssistant", "appendTool"}
       /\ IsPrefix(send[1].appended,
                   ExpectedAppends(send[1].text, send[1].frames, panel.messages))
  /\ send[1].pc \in {"fetching", "reading"} => send[1].appended = <<>>
  /\ (pev.op = "end") =>
       send[1].appended = <<[role |-> "user", content |-> pev.text]>>
  /\ (pev.op = "finished" /\ pev.outcome = "saved") =>
       pev.appended = ExpectedAppends(pev.text, pev.frames, panel.messages)
  /\ (pev.op = "finished" /\ pev.outcome \in {"rejected", "streamFailed"}) =>
       pev.appended = <<>>

\* C25 witness: an exchange whose stream carried text ended with the three
\* calls made
C25_Witness ==
  /\ pev.op = "finished" /\ pev.outcome = "saved"
  /\ Len(pev.appended) = 3
  /\ pev.appended[2].content # <<>>
  /\ pev.appended[3].role = "tool"

\* ------------------------------------------------------------------ C26
\* C26: an event stream that ends without a done frame is treated as failed:
\* its text is never in the conversation as an assistant answer, no
\* appendMessage call is made for it, and the sendMessage that read it ends
\* with an error shown.
C26_NoDoneIsFailure ==
  /\ \A i \in 1..Len(panel.messages) :
       panel.messages[i].kind = "answer" => panel.messages[i].complete
  /\ send[1].appended # <<>> => CountDone(send[1].frames) > 0
  /\ (pev.op = "finished" /\ pev.status = 200 /\ CountDone(pev.frames) = 0) =>
       (pev.error # "none" /\ pev.appended = <<>>)

\* ------------------------------------------------------------------ C27
\* C27: every request body the panel builds passes the validation of the
\* endpoint it is sent to: it is accepted by chatInputSchema (every role is
\* in the schema's enum, also the role tool of a card in the history) and
\* its last message is the new user message, so the endpoint goes on to
\* open the upstream.
C27_BodiesPassValidation ==
  /\ pev.op = "send" =>
       /\ pev.body.roles[Len(pev.body.roles)] = "user"
       /\ SchemaAccepts(route, pev.body)
       /\ ValidateStatus(route, pev.body) = 0
  /\ send[1].pc = "fetching" => ValidateStatus(route, send[1].body) = 0

\* ------------------------------------------------------------------ C28
\* the part of the table that belongs to identity id
OwnEntry(store, id) == [k \in DOMAIN store \cap {id} |-> store[k]]

\* C28: a checkLimit call for one identity leaves the entry of every other
\* identity as it was (present or absent, same count, same windowEnd), and
\* what it returns and stores for its own identity is what it would with
\* the other identities' entries removed from the table.
C28_OtherIdentitiesUntouched ==
  [][(ev'.op = "checkLimit") =>
       /\ \A k \in Users \ {ev'.id} :
            OwnEntry(rateLimitStore', k) = OwnEntry(rateLimitStore, k)
       /\ ev'.res = CheckLimitResult(OwnEntry(rateLimitStore, ev'.id), ev'.id, now, config)
       /\ OwnEntry(rateLimitStore', ev'.id) =
            CheckLimitStore(OwnEntry(rateLimitStore, ev'.id), ev'.id, now, config)]_vars

\* C28 witness: a first call was admitted while another identity's window
\* was used up
C28_Witness ==
  /\ Called /\ ~ev.had /\ ev.res.success
  /\ \E k \in Users \ {ev.id} :
       /\ k \in DOMAIN rateLimitStore
       /\ rateLimitStore[k].count = config.maxRequests
       /\ now <= rateLimitStore[k].resetTime
  /\ rateLimitStore[ev.id].count = 1

\* ------------------------------------------------------------------ C29
\* C29: every entry of the table has 1 <= count <= maxRequests (maxRequests
\* is positive), and the windowEnd of an entry changes only in a checkLimit
\* call of its identity that opens a new window: the entry before had
\* expired and the entry after is the new window's, with count 1.
C29_EntriesWellFormed ==
  /\ [](config.maxRequests > 0 /\
        \A k \in DOMAIN rateLimitStore :
          /\ 1 <= rateLimitStore[k].count
          /\ rateLimitStore[k].count <= config.maxRequests)
  /\ [][\A k \in DOMAIN rateLimitStore \cap DOMAIN rateLimitStore' :
          rateLimitStore'[k].resetTime # rateLimitStore[k].resetTime =>
            /\ ev'.op = "checkLimit" /\ ev'.id = k
            /\ now > rateLimitStore[k].resetTime
            /\ rateLimitStore'[k] = NewEntry(now, config)
            /\ ev'.res.success]_vars
  /\ [][\A k \in DOMAIN rateLimitStore' \ DOMAIN rateLimitStore :
          /\ ev'.op = "checkLimit" /\ ev'.id = k
          /\ rateLimitStore'[k] = NewEntry(now, config)]_vars

\* C29 witness: a call was counted in a window that is now used up, and the
\* end of the window is the one the opening call set
C29_Witness ==
  /\ Called /\ ev.had /\ ev.res.success
  /\ config.maxRequests >= 2
  /\ rateLimitStore[ev.id].count = config.maxRequests
  /\ rateLimitStore[ev.id].resetTime = ev.prev.resetTime
  /\ ev.prev.count = config.maxRequests - 1

\* ------------------------------------------------------------------ C30
\* C30: a panel never has two chat requests in flight: a sendMessage that
\* passes its guard finds no request in flight, also when its send event
\* comes before the render that follows the send before it; and every
\* sendMessage that returns (saved or not, HTTP error, stream error) leaves
\* the loading flag cleared.
C30_OneRequestInFlight ==
  /\ Cardinality({s \in SendIds : InFlight(s)}) <= 1
  /\ pev.op = "send" => pev.inFlight = 0
  /\ pev.op = "finished" => ~panel.isLoading

====
